---- MODULE Spec2Model ----
(***************************************************************************)
(* A model of the scalar reverse-mode autodiff engine of src/engine.py     *)
(* (class Value).  The heap of Value objects is the sequence `nodes`; a     *)
(* node is referred to by its index.  Every operator method of Value is     *)
(* one action that runs the whole method, every nested call included.       *)
(*                                                                         *)
(* Python numbers are modelled as exact rationals n/d tagged with their     *)
(* Python type ("int" or "float"); rounding and overflow of IEEE doubles    *)
(* are outside the model.  tanh, sigmoid and exp produce irrational values  *)
(* and are left out; they have the shape of linear (one operand, one        *)
(* `self.grad += out.grad * c` statement).  Exponents of ** are Python ints.*)
(* A Python str is modelled by its length (strings over a one-letter        *)
(* alphabet), which is exact for + (concatenation) and * (repetition).      *)
(***************************************************************************)
EXTENDS Integers, Sequences, FiniteSets, TLC

VARIABLES nodes, err, last, invoked, calls

vars == <<nodes, err, last, invoked, calls>>

\* ------------------------------------------------------------------ bounds
\* Spec and SpecAct: Values on the heap, calls of backward
MaxNodes == 3
MaxCalls == 2
\* SpecArith and SpecDeep: `r - a` alone allocates four Values
MaxArithNodes == 5
MaxArithLeaves == 1
MaxArithCalls == 1
MaxDeepNodes == 5
MaxDeepCalls == 1

\* ------------------------------------------------------- Python arithmetic
Abs(x) == IF x < 0 THEN -x ELSE x

RECURSIVE GCD(_, _)
GCD(a, b) == IF b = 0 THEN a ELSE GCD(b, a % b)

\* a Python object: an int, a float or a str; or the exception an
\* expression raised
Obj(t, n, d) == [t |-> t, n |-> n, d |-> d]

Norm(t, n, d) ==
    LET g == GCD(Abs(n), Abs(d))
        s == IF d < 0 THEN -1 ELSE 1
    IN  Obj(t, (s * n) \div g, (s * d) \div g)

PyInt(i) == Obj("int", i, 1)
PyFloat(n, d) == Norm("float", n, d)
PyStr(len) == Obj("str", len, 1)
Raised(e) == Obj(e, 0, 1)

Exceptions == {"TypeError", "ZeroDivisionError", "AssertionError"}
IsErr(x) == x.t \in Exceptions
IsNum(x) == x.t \in {"int", "float"}
NumType(x, y) == IF x.t = "int" /\ y.t = "int" THEN "int" ELSE "float"

\* x + y
PyAdd(x, y) ==
    IF IsErr(x) THEN x
    ELSE IF IsErr(y) THEN y
    ELSE IF IsNum(x) /\ IsNum(y)
         THEN Norm(NumType(x, y), x.n * y.d + y.n * x.d, x.d * y.d)
    ELSE IF x.t = "str" /\ y.t = "str" THEN PyStr(x.n + y.n)
    ELSE Raised("TypeError")

\* x * y
PyMul(x, y) ==
    IF IsErr(x) THEN x
    ELSE IF IsErr(y) THEN y
    ELSE IF IsNum(x) /\ IsNum(y)
         THEN Norm(NumType(x, y), x.n * y.n, x.d * y.d)
    ELSE IF x.t = "str" /\ y.t = "int"
         THEN PyStr(IF y.n > 0 THEN x.n * y.n ELSE 0)
    ELSE IF x.t = "int" /\ y.t = "str"
         THEN PyStr(IF x.n > 0 THEN x.n * y.n ELSE 0)
    ELSE Raised("TypeError")

RECURSIVE IntPow(_, _)
IntPow(b, k) == IF k = 0 THEN 1 ELSE b * IntPow(b, k - 1)

\* x ** p for a Python number p of integral value
PyPow(x, p) ==
    IF IsErr(x) THEN x
    ELSE IF ~IsNum(x) THEN Raised("TypeError")
    ELSE IF p.n >= 0
         THEN Norm(NumType(x, p), IntPow(x.n, p.n), IntPow(x.d, p.n))
    ELSE IF x.n = 0 THEN Raised("ZeroDivisionError")
    ELSE Norm("float", IntPow(x.d, -p.n), IntPow(x.n, -p.n))

\* x > 0, as "True", "False" or the exception raised
PyGt0(x) ==
    IF IsNum(x) THEN (IF x.n > 0 THEN "True" ELSE "False") ELSE "TypeError"

\* numeric equality (Python's ==, which ignores int/float)
NumEq(x, y) == IsNum(x) /\ IsNum(y) /\ x.n = y.n /\ x.d = y.d

Zero == PyFloat(0, 1)
One == PyFloat(1, 1)
NoConst == PyInt(0)

\* ------------------------------------------------------------ Value objects
\* Value.__init__: grad starts at 0.0, _backward is the no-op of a leaf until
\* the creating operator replaces it (here: the tag op selects the rule)
NewValue(data, children, op, k) ==
    [data |-> data, grad |-> Zero, children |-> children, op |-> op, k |-> k]

\* what an operator call hands back: the heap after it, the index of the
\* Value returned (0 when it raised) and the exception ("none" when none)
Result(ns, ret, e) == [ns |-> ns, ret |-> ret, err |-> e]

\* an operand of an operator: a Value of the heap or another Python object
NodeRef(i) == [isNode |-> TRUE, i |-> i, v |-> NoConst]
Const(v) == [isNode |-> FALSE, i |-> 0, v |-> v]
IsNumber(o) == ~o.isNode /\ IsNum(o.v)

\* `other if isinstance(other, Value) else Value(other)`
Promote(ns, other) ==
    IF other.isNode THEN Result(ns, other.i, "none")
    ELSE Result(Append(ns, NewValue(other.v, <<>>, "", NoConst)),
                Len(ns) + 1, "none")

\* the tail shared by the operators: `out = Value(data, ...)`, unless the
\* expression computing data raised
Make(ns, data, children, op, k) ==
    IF IsErr(data) THEN Result(ns, 0, data.t)
    ELSE Result(Append(ns, NewValue(data, children, op, k)), Len(ns) + 1, "none")

MakeLeaf(ns, v) == Make(ns, v, <<>>, "", NoConst)

linear(ns, self) == Make(ns, ns[self].data, <<self>>, "linear", NoConst)

leaky_relu(ns, self, alpha) ==
    LET x == ns[self].data
        c == PyGt0(x)
        data == IF c = "TypeError" THEN Raised("TypeError")
                ELSE IF c = "True" THEN x ELSE PyMul(x, alpha)
    IN  Make(ns, data, <<self>>, "leaky_relu", alpha)

relu(ns, self) ==
    LET x == ns[self].data
        c == PyGt0(x)
        data == IF c = "TypeError" THEN Raised("TypeError")
                ELSE IF c = "True" THEN x ELSE PyInt(0)
    IN  Make(ns, data, <<self>>, "relu", NoConst)

add(ns, self, other) ==
    LET p == Promote(ns, other)
        data == PyAdd(ns[self].data, p.ns[p.ret].data)
    IN  Make(p.ns, data, <<self, p.ret>>, "add", NoConst)

mul(ns, self, other) ==
    LET p == Promote(ns, other)
        data == PyMul(ns[self].data, p.ns[p.ret].data)
    IN  Make(p.ns, data, <<self, p.ret>>, "mul", NoConst)

pow(ns, self, power) ==
    IF ~IsNumber(power) THEN Result(ns, 0, "AssertionError")
    ELSE Make(ns, PyPow(ns[self].data, power.v), <<self>>, "pow", power.v)

radd(ns, self, other) ==
    IF ~IsNumber(other) THEN Result(ns, 0, "AssertionError")
    ELSE add(ns, self, other)

rmul(ns, self, other) ==
    IF ~IsNumber(other) THEN Result(ns, 0, "AssertionError")
    ELSE mul(ns, self, other)

neg(ns, self) == mul(ns, self, Const(PyInt(-1)))

sub(ns, self, other) ==
    IF ~(other.isNode \/ IsNumber(other)) THEN Result(ns, 0, "AssertionError")
    ELSE LET p == Promote(ns, other)
             m == neg(p.ns, p.ret)
         IN  IF m.err # "none" THEN m ELSE add(m.ns, self, NodeRef(m.ret))

rsub(ns, self, other) == sub(ns, self, other)

truediv(ns, self, other) ==
    IF ~(other.isNode \/ IsNumber(other)) THEN Result(ns, 0, "AssertionError")
    ELSE LET p == Promote(ns, other)
             q == pow(p.ns, p.ret, Const(PyInt(-1)))
         IN  IF q.err # "none" THEN q ELSE mul(q.ns, self, NodeRef(q.ret))

\* `other / self` with other not a Value: Value defines no __rtruediv__, so
\* Python finds no implementation and raises TypeError
rtruediv(ns, self, other) == Result(ns, 0, "TypeError")

\* ------------------------------------------------------- local-gradient rules
\* `node.grad = term` in place of `node.grad += term`
Overwrite(st, i, term) ==
    IF st.err # "none" THEN st
    ELSE IF IsErr(term) THEN [ns |-> st.ns, err |-> term.t]
    ELSE [ns |-> [st.ns EXCEPT ![i].grad = term], err |-> "none"]

\* The state a rule runs in: the heap and the exception raised so far.
\* `node.grad += term`: nothing is stored when evaluating term raised, and a
\* statement after a raising one is never reached.
Accumulate(st, i, term) ==
    IF st.err # "none" THEN st
    ELSE IF IsErr(term) THEN [ns |-> st.ns, err |-> term.t]
    ELSE [ns |-> [st.ns EXCEPT ![i].grad = PyAdd(@, term)], err |-> "none"]

linear_backward(st, out) ==
    LET self == st.ns[out].children[1]
    IN  Accumulate(st, self, PyMul(st.ns[out].grad, One))

leaky_relu_backward(st, out) ==
    LET self == st.ns[out].children[1]
        slope == IF PyGt0(st.ns[self].data) = "True" THEN PyInt(1)
                 ELSE st.ns[out].k
    IN  Accumulate(st, self, PyMul(st.ns[out].grad, slope))

\* relu with `data >= 0` in place of `data > 0`
relu_backward_ge(st, out) ==
    LET self == st.ns[out].children[1]
        pos == IF st.ns[out].data.n >= 0 THEN PyInt(1) ELSE PyInt(0)
    IN  Accumulate(st, self, PyMul(st.ns[out].grad, pos))

relu_backward(st, out) ==
    LET self == st.ns[out].children[1]
        pos == IF PyGt0(st.ns[out].data) = "True" THEN PyInt(1) ELSE PyInt(0)
    IN  Accumulate(st, self, PyMul(st.ns[out].grad, pos))

add_backward(st, out) ==
    LET self == st.ns[out].children[1]
        other == st.ns[out].children[2]
        s1 == Accumulate(st, self, PyMul(st.ns[out].grad, One))
    IN  Accumulate(s1, other, PyMul(s1.ns[out].grad, One))

mul_backward(st, out) ==
    LET self == st.ns[out].children[1]
        other == st.ns[out].children[2]
        s1 == Accumulate(st, self, PyMul(st.ns[out].grad, st.ns[other].data))
    IN  Accumulate(s1, other, PyMul(s1.ns[out].grad, s1.ns[self].data))

pow_backward(st, out) ==
    LET self == st.ns[out].children[1]
        power == st.ns[out].k
        pm1 == Obj(power.t, power.n - 1, 1)
    IN  Accumulate(st, self, PyMul(PyMul(st.ns[out].grad, power),
                                   PyPow(st.ns[self].data, pm1)))

\* n._backward(): the closure the creating operator installed; a leaf keeps
\* `lambda: None`
CallBackward(st, n) ==
    LET op == st.ns[n].op
    IN  IF op = "linear" THEN linear_backward(st, n)
        ELSE IF op = "leaky_relu" THEN leaky_relu_backward(st, n)
        ELSE IF op = "relu" THEN relu_backward(st, n)
        ELSE IF op = "add" THEN add_backward(st, n)
        ELSE IF op = "mul" THEN mul_backward(st, n)
        ELSE IF op = "pow" THEN pow_backward(st, n)
        ELSE st

\* ---------------------------------------------------------------- backward
RECURSIVE build_graph(_, _, _)
RECURSIVE build_children(_, _, _, _)

\* build_graph(v): acc holds the closure's `visited` and `nodes`
build_graph(ns, v, acc) ==
    IF v \in acc.visited THEN acc
    ELSE LET a1 == [acc EXCEPT !.visited = @ \cup {v}]
             a2 == build_children(ns, ns[v].children, 1, a1)
         IN  [a2 EXCEPT !.nodes = Append(@, v)]

\* `for c in v._children: build_graph(c)`
build_children(ns, cs, j, acc) ==
    IF j > Len(cs) THEN acc
    ELSE build_children(ns, cs, j + 1, build_graph(ns, cs[j], acc))

Reversed(s) == [j \in 1..Len(s) |-> s[Len(s) + 1 - j]]

\* backward zeroing every grad before it seeds the root
SeedAfterReset(ns, root) ==
    [i \in 1..Len(ns) |-> [ns[i] EXCEPT !.grad = IF i = root THEN One ELSE Zero]]

\* `self.grad = 1.0`
Seed(ns, root) == [ns EXCEPT ![root].grad = One]

RECURSIVE RunRules(_, _, _)
\* `for n in reversed(nodes): n._backward()`; an exception ends the loop
\* and the call.  run.invoked lists the nodes whose rule was entered.
RunRules(run, order, j) ==
    IF j > Len(order) \/ run.err # "none" THEN run
    ELSE LET s == CallBackward([ns |-> run.ns, err |-> "none"], order[j])
         IN  RunRules([ns |-> s.ns, err |-> s.err,
                       invoked |-> Append(run.invoked, order[j])],
                      order, j + 1)

backward(ns, root) ==
    LET g == build_graph(ns, root, [visited |-> {}, nodes |-> <<>>])
    IN  RunRules([ns |-> Seed(ns, root), err |-> "none", invoked |-> <<>>],
                 Reversed(g.nodes), 1)

\* ------------------------------------------------------------------ inputs
LeafValues == {PyFloat(0, 1), PyFloat(3, 1)}
ActValues == {PyFloat(-2, 1), PyFloat(0, 1), PyFloat(3, 1)}
Alphas == {PyFloat(1, 2), PyInt(2)}
Powers == {PyInt(0), PyInt(2)}
\* SpecArith: leaves, plain numbers and an operand that is neither ("s")
ArithValues == {PyInt(2), PyFloat(3, 1)}
Numbers == {PyInt(0), PyFloat(5, 1)}
ArithPowers == {PyInt(-1), PyInt(2)}
Others == {PyStr(1)}

\* ----------------------------------------------------------------- actions
Ids == 1..Len(nodes)
NoOperand == Const(NoConst)

\* one operator call: its result becomes the state; no call is made on a
\* full heap, nor one whose Values would outgrow cap
Call(r, op, self, other, cap) ==
    /\ Len(nodes) < cap
    /\ \E res \in {r} :
        /\ Len(res.ns) <= cap
        /\ nodes' = res.ns
        /\ err' = res.err
        /\ last' = [op |-> op, self |-> self, other |-> other, ret |-> res.ret]
        /\ invoked' = <<>>
        /\ UNCHANGED calls

Leaf(v, cap) == Call(MakeLeaf(nodes, v), "leaf", 0, Const(v), cap)

Linear(a, cap) == Call(linear(nodes, a), "linear", a, NoOperand, cap)

Relu(a, cap) == Call(relu(nodes, a), "relu", a, NoOperand, cap)

LeakyRelu(a, alpha, cap) ==
    Call(leaky_relu(nodes, a, alpha), "leaky_relu", a, Const(alpha), cap)

\* a + o, a * o, a ** o, a - o, a / o, -a
Add(a, o, cap) == Call(add(nodes, a, o), "add", a, o, cap)

Mul(a, o, cap) == Call(mul(nodes, a, o), "mul", a, o, cap)

Pow(a, o, cap) == Call(pow(nodes, a, o), "pow", a, o, cap)

Sub(a, o, cap) == Call(sub(nodes, a, o), "sub", a, o, cap)

TrueDiv(a, o, cap) == Call(truediv(nodes, a, o), "truediv", a, o, cap)

Neg(a, cap) == Call(neg(nodes, a), "neg", a, NoOperand, cap)

\* o + a, o * a, o - a, o / a for an o that is not a Value: Python turns to
\* the reflected method of a
RAdd(o, a, cap) == Call(radd(nodes, a, o), "radd", a, o, cap)

RMul(o, a, cap) == Call(rmul(nodes, a, o), "rmul", a, o, cap)

RSub(o, a, cap) == Call(rsub(nodes, a, o), "rsub", a, o, cap)

RTrueDiv(o, a, cap) == Call(rtruediv(nodes, a, o), "rtruediv", a, o, cap)

Backward(root, maxCalls) ==
    /\ calls < maxCalls
    /\ \E run \in {backward(nodes, root)} :
           /\ nodes' = run.ns
           /\ err' = run.err
           /\ invoked' = run.invoked
    /\ last' = [op |-> "backward", self |-> root, other |-> NoOperand, ret |-> 0]
    /\ calls' = calls + 1

Init ==
    /\ nodes = <<>>
    /\ err = "none"
    /\ last = [op |-> "init", self |-> 0, other |-> NoOperand, ret |-> 0]
    /\ invoked = <<>>
    /\ calls = 0

\* leaves, the arithmetic primitives on Values, backward
Next ==
    \/ \E v \in LeafValues : Leaf(v, MaxNodes)
    \/ \E a \in Ids, b \in Ids : Add(a, NodeRef(b), MaxNodes)
    \/ \E a \in Ids, b \in Ids : Mul(a, NodeRef(b), MaxNodes)
    \/ \E a \in Ids, p \in Powers : Pow(a, Const(p), MaxNodes)
    \/ \E r \in Ids : Backward(r, MaxCalls)

Spec == Init /\ [][Next]_vars

\* leaves, the activations, backward
NextAct ==
    \/ \E v \in ActValues : Leaf(v, MaxNodes)
    \/ \E a \in Ids : Linear(a, MaxNodes)
    \/ \E a \in Ids : Relu(a, MaxNodes)
    \/ \E a \in Ids, alpha \in Alphas : LeakyRelu(a, alpha, MaxNodes)
    \/ \E r \in Ids : Backward(r, MaxCalls)

SpecAct == Init /\ [][NextAct]_vars

\* the arithmetic operators with a Value on one side and a plain number or
\* another object on the other; leaves are constructed while the heap holds
\* fewer than MaxArithLeaves Values
Operands == {Const(v) : v \in Numbers \cup Others}
Exponents == {Const(v) : v \in ArithPowers \cup Others}

NextArith ==
    \/ \E v \in ArithValues : Leaf(v, MaxArithLeaves)
    \/ \E a \in Ids, o \in Operands : Add(a, o, MaxArithNodes)
    \/ \E a \in Ids, o \in Operands : Mul(a, o, MaxArithNodes)
    \/ \E a \in Ids : \E o \in Exponents \cup {NodeRef(a)} :
           Pow(a, o, MaxArithNodes)
    \/ \E a \in Ids, o \in Operands : Sub(a, o, MaxArithNodes)
    \/ \E a \in Ids, o \in Operands : TrueDiv(a, o, MaxArithNodes)
    \/ \E a \in Ids : Neg(a, MaxArithNodes)
    \/ \E a \in Ids, o \in Operands : RAdd(o, a, MaxArithNodes)
    \/ \E a \in Ids, o \in Operands : RMul(o, a, MaxArithNodes)
    \/ \E a \in Ids, o \in Operands : RSub(o, a, MaxArithNodes)
    \/ \E a \in Ids, o \in Operands : RTrueDiv(o, a, MaxArithNodes)
    \/ \E r \in Ids : Backward(r, MaxArithCalls)

SpecArith == Init /\ [][NextArith]_vars

\* deeper graphs, one call of backward
NextDeep ==
    \/ \E v \in LeafValues : Leaf(v, MaxDeepNodes)
    \/ \E a \in Ids, b \in Ids : Add(a, NodeRef(b), MaxDeepNodes)
    \/ \E a \in Ids, p \in Powers : Pow(a, Const(p), MaxDeepNodes)
    \/ \E r \in Ids : Backward(r, MaxDeepCalls)

SpecDeep == Init /\ [][NextDeep]_vars

\* ------------------------------------------------- vocabulary of the claims
Children(ns, n) == {ns[n].children[j] : j \in 1..Len(ns[n].children)}

RECURSIVE Reach(_, _)
\* the nodes reachable from root through children, root included
Reach(ns, root) == {root} \cup UNION {Reach(ns, c) : c \in Children(ns, root)}

Parents(ns, n) == {q \in 1..Len(ns) : n \in Children(ns, q)}

IsLeaf(ns, n) == Len(ns[n].children) = 0

\* the local derivative of node out with respect to its j-th child, by the
\* table of section 4.2; an exception where the formula has no value
Deriv(ns, out, j) ==
    LET op == ns[out].op
        a == ns[ns[out].children[1]].data
    IN  IF op = "add" \/ op = "linear" THEN One
        ELSE IF op = "mul" THEN ns[ns[out].children[3 - j]].data
        ELSE IF op = "pow"
             THEN PyMul(ns[out].k,
                        PyPow(a, Obj(ns[out].k.t, ns[out].k.n - 1, 1)))
        ELSE IF op = "relu" THEN (IF a.n > 0 THEN One ELSE Zero)
        ELSE IF op = "leaky_relu" THEN (IF a.n > 0 THEN One ELSE ns[out].k)
        ELSE Zero

RECURSIVE PathSum(_, _, _)
\* d(root)/d(n): the sum over the child-edge paths from root to n of the
\* product of the local derivatives along the path
PathSum(ns, root, n) ==
    IF root = n THEN One
    ELSE LET cs == ns[root].children
             Term(j) == IF j <= Len(cs) /\ n \in Reach(ns, cs[j])
                        THEN PyMul(Deriv(ns, root, j), PathSum(ns, cs[j], n))
                        ELSE Zero
         IN  PyAdd(Term(1), Term(2))

\* the position of n in sequence s, 0 when absent
Pos(s, n) == IF \E j \in 1..Len(s) : s[j] = n
             THEN CHOOSE j \in 1..Len(s) : s[j] = n ELSE 0

Count(s, n) == Cardinality({j \in 1..Len(s) : s[j] = n})

IsBackwardStep == calls' = calls + 1

\* -------------------------------------------------------------- the claims

\* C1: after one call backward(root) on a graph whose grads were all 0,
\* root.grad = 1 and every other node N reachable from root has N.grad equal
\* to the sum over the paths from root to N of the products of the local
\* derivatives (stated for the N whose path sum has a value).
C1_GradIsPathSum ==
    (last.op = "backward" /\ calls = 1) =>
        /\ NumEq(nodes[last.self].grad, One)
        /\ \A n \in Reach(nodes, last.self) \ {last.self} :
               LET d == PathSum(nodes, last.self, n)
               IN  ~IsErr(d) => NumEq(nodes[n].grad, d)

\* C2: a second call backward(R2), made without resetting grad, adds exactly
\* d(R2)/d(L) to the grad of every leaf L reachable from R2 (stated for the
\* leaves other than R2 itself).
C2_SecondCallAddsOwnGradient ==
    [][(IsBackwardStep /\ calls >= 1) =>
          \A n \in Reach(nodes, last'.self) \ {last'.self} :
              LET d == PathSum(nodes, last'.self, n)
              IN  (IsLeaf(nodes, n) /\ ~IsErr(d)) =>
                      NumEq(nodes'[n].grad, PyAdd(nodes[n].grad, d))]_vars

\* C9: backward(root) invokes the rule of every node reachable from root
\* exactly once, the rule of no other node, and the rule of every reachable
\* parent of N before the rule of N.
C9_EveryRuleOnceInOrder ==
    last.op = "backward" =>
        /\ \A n \in 1..Len(nodes) :
               Count(invoked, n) = IF n \in Reach(nodes, last.self) THEN 1 ELSE 0
        /\ \A n \in Reach(nodes, last.self) :
               \A q \in Parents(nodes, n) \cap Reach(nodes, last.self) :
                   Pos(invoked, q) < Pos(invoked, n)

\* C10: backward(root) never ends in an error.
C10_BackwardNeverFails == last.op = "backward" => err = "none"

\* C3: with a Value a (holding a number) on one side and a plain number r on
\* the other, each operator returns a Value whose data is the operation
\* applied in the written order: a + r, r + a, a * r, r * a, a - r, r - a,
\* a / r, r / a (the quotients stated for a non-zero divisor).
C3_MixedOperandData ==
    (last.op \in {"add", "radd", "mul", "rmul", "sub", "rsub", "truediv",
                  "rtruediv"}
       /\ IsNumber(last.other) /\ IsNum(nodes[last.self].data)) =>
        LET a == nodes[last.self].data
            r == last.other.v
            inv(x) == PyPow(x, PyInt(-1))
            expected ==
                IF last.op \in {"add", "radd"} THEN PyAdd(a, r)
                ELSE IF last.op \in {"mul", "rmul"} THEN PyMul(a, r)
                ELSE IF last.op = "sub" THEN PyAdd(a, PyMul(r, PyInt(-1)))
                ELSE IF last.op = "rsub" THEN PyAdd(r, PyMul(a, PyInt(-1)))
                ELSE IF last.op = "truediv" THEN PyMul(a, inv(r))
                ELSE PyMul(r, inv(a))
        IN  ~IsErr(expected) =>
                /\ err = "none"
                /\ last.ret # 0
                /\ NumEq(nodes[last.ret].data, expected)

\* an operand that is neither a Value nor a plain number; for ** an exponent
\* that is not a plain number
InvalidOperand ==
    /\ last.op \in {"add", "radd", "mul", "rmul", "sub", "rsub", "truediv",
                    "rtruediv", "pow"}
    /\ ~IsNumber(last.other)
    /\ (last.op = "pow" \/ ~last.other.isNode)

\* C4: an arithmetic operator given an operand that is neither a Value nor a
\* plain number, and ** given an exponent that is not a number, fails with
\* an error.
C4_InvalidOperandRaises == InvalidOperand => err # "none"

\* C5: a / b with b.data = 0 raises no error and returns a Value.
C5_DivideByZeroReturns ==
    (last.op = "truediv" /\ IsNumber(last.other) /\ last.other.v.n = 0
       /\ IsNum(nodes[last.self].data)) =>
        err = "none" /\ last.ret # 0

\* what section 8 gives for the data of a relu and of a leaky_relu node
ActivationData(ns) ==
    \A i \in 1..Len(ns) :
        LET x == ns[ns[i].children[1]].data
        IN  /\ ns[i].op = "relu" =>
                NumEq(ns[i].data, IF x.n > 0 THEN x ELSE Zero)
            /\ ns[i].op = "leaky_relu" =>
                NumEq(ns[i].data, IF x.n > 0 THEN x ELSE PyMul(ns[i].k, x))

C7_Frame ==
    [][/\ Len(nodes') >= Len(nodes)
       /\ \A i \in 1..Len(nodes) :
              /\ nodes'[i].data = nodes[i].data
              /\ nodes'[i].children = nodes[i].children
              /\ nodes'[i].op = nodes[i].op
              /\ nodes'[i].k = nodes[i].k
       /\ ~IsBackwardStep =>
              /\ \A i \in 1..Len(nodes) : nodes'[i].grad = nodes[i].grad
              /\ \A i \in (Len(nodes) + 1)..Len(nodes') : nodes'[i].grad = Zero
       /\ IsBackwardStep =>
              /\ Len(nodes') = Len(nodes)
              /\ \A i \in (1..Len(nodes)) \ Reach(nodes, last'.self) :
                     nodes'[i].grad = nodes[i].grad]_vars

\* backward has run past a node that is unreachable from its root and holds a
\* grad from an earlier call, and has given a grad to a node below the root
C7_Witness ==
    /\ last.op = "backward" /\ calls = 2
    /\ \E i \in (1..Len(nodes)) \ Reach(nodes, last.self) :
           ~NumEq(nodes[i].grad, Zero)
    /\ \E j \in Reach(nodes, last.self) \ {last.self} :
           ~NumEq(nodes[j].grad, Zero)

\* the rules of a call that ran to their end
Completed(inv, e) ==
    IF e = "none" THEN inv ELSE SubSeq(inv, 1, Len(inv) - 1)

\* what the rule of out adds to n.grad: out.grad times the local derivative,
\* once for every edge from out to n
Contribution(ns, after, out, n) ==
    LET T(j) == IF j <= Len(ns[out].children) /\ ns[out].children[j] = n
                THEN PyMul(after[out].grad, Deriv(ns, out, j))
                ELSE Zero
    IN  PyAdd(T(1), T(2))

RECURSIVE ReceivedUpTo(_, _, _, _, _)
ReceivedUpTo(ns, after, done, n, k) ==
    IF k = 0 THEN Zero
    ELSE CHOOSE sum \in {PyAdd(r, c) : r \in {ReceivedUpTo(ns, after, done, n, k - 1)},
                                       c \in {Contribution(ns, after, done[k], n)}} :
             TRUE

\* what the completed rules of this step add to n.grad
Received(n) ==
    CHOOSE sum \in {ReceivedUpTo(nodes, nodes', done, n, Len(done)) :
                        done \in {Completed(invoked', err')}} : TRUE

\* C8 as claimed: every change of a grad adds to its existing value: a
\* construction adds nothing, backward(root) adds the seed 1 to root.grad and
\* to every node what the rules of its parents contribute.
C8_OnlyAccumulated ==
    [][\A n \in 1..Len(nodes) : \A r \in {Received(n)} :
          \A seed \in {IF IsBackwardStep /\ n = last'.self THEN One ELSE Zero} :
              NumEq(nodes'[n].grad, PyAdd(nodes[n].grad, PyAdd(seed, r)))]_vars

\* C8 as amended: backward(root) assigns root.grad = 1, whatever root.grad
\* held; every other change of a grad adds, to the existing value, what the
\* rules of the node's parents contribute; a construction changes no grad.
C8_SeedThenAccumulate ==
    [][\A n \in 1..Len(nodes) : \A r \in {Received(n)} :
          IF IsBackwardStep /\ n = last'.self
          THEN NumEq(nodes'[n].grad, One)
          ELSE NumEq(nodes'[n].grad, PyAdd(nodes[n].grad, r))]_vars

\* the second call of backward is rooted at an operand of the first call's
\* sum node: the root's grad from the first call is replaced by 1, and a node
\* below it holds more than this call's own gradient
C8_Witness ==
    /\ last.op = "backward" /\ calls = 2 /\ err = "none"
    /\ NumEq(nodes[last.self].grad, One)
    /\ \E q \in Parents(nodes, last.self) :
           nodes[q].op = "add" /\ ~NumEq(nodes[q].grad, Zero)
    /\ \E n \in Reach(nodes, last.self) \ {last.self} :
           /\ ~NumEq(nodes[n].grad, Zero)
           /\ ~NumEq(nodes[n].grad, PathSum(nodes, last.self, n))

====
